---- MODULE Spec2Model ----
(***************************************************************************)
(* Model of the Raycast command "Easy Bluetooth Connect" (eblu).           *)
(*                                                                         *)
(* The command is one React function component (Command).  Its state cells *)
(* are the VARIABLES below; every handler is one action.  All external     *)
(* commands are run with execSync, which blocks the single JavaScript      *)
(* thread, so a handler runs to completion before any other handler        *)
(* starts.  The one handler that is split in two steps is startDiscovery:  *)
(* the second step is the return of the blocking `--inquiry` command, and  *)
(* the only thing that can happen in between is that the host queues       *)
(* another request for the blocked extension.                              *)
(*                                                                         *)
(* Strings the code inspects character by character are sequences of       *)
(* UTF-16 code units (numbers).  An optional value (a JavaScript value     *)
(* that may be undefined) is a sequence of length 0 or 1.                  *)
(*                                                                         *)
(* The handlers are entry points: once the command has mounted, each can   *)
(* be called with any address, whether or not the list shows an item that  *)
(* carries its action.  The clock that new Date() reads moves only in      *)
(* SpecClock; the history variables pending, overwrote and repeated are    *)
(* kept only by the specification that needs them.                         *)
(***************************************************************************)
EXTENDS Integers, Sequences, FiniteSets, TLC

VARIABLES
    allDevices,         \* useState<BluetoothDevice[]>: the known devices
    searchText,         \* useState(""): the query of the search bar
    blueutilPath,       \* useState<string>(""): path of the control tool
    isScanning,         \* useState(false)
    discoveredDevices,  \* useState<BluetoothDevice[]>: result of the last scan
    maxDevices,         \* preference maxDevices
    mounted,            \* the mount effect has run
    timers,             \* number of pending setTimeout(refreshDevices, 1000)
    outstanding,        \* number of `--inquiry` commands that have not returned
    queuedScans,        \* scan requests made while the extension was blocked in a scan
    lastGood,           \* history: the source document of the latest successful refresh
    last,               \* history: what the most recent handler did
    now,                \* the clock that new Date() reads
    pending,            \* history: for each pending timer, oldest first, whether a
                        \*   refresh has installed its result since the timer was set
    repeated,           \* history: the latest refresh read the document of the one before
    overwrote           \* history: the installed result is that of a timer's refresh,
                        \*   and it replaced one installed after the timer was set

vars == <<allDevices, searchText, blueutilPath, isScanning, discoveredDevices,
          maxDevices, mounted, timers, outstanding, queuedScans, lastGood, last,
          now, pending, repeated, overwrote>>

----------------------------------------------------------------------------
(* Bounds of the model *)

MaxRecords == 2     \* records in one paired-snapshot document (both groups together)
MaxLifecycleRecords == 1    \* the same, where every handler takes part
MaxScan == 2        \* records in one discovery-scan result
MaxTimers == 1      \* pending re-fetch timers
MaxQueued == 1      \* queued scan requests
MaxQuery == 3       \* code units in a search query
MaxSearchRecords == 3   \* known devices under the search bar
MaxPref == 2        \* largest maxDevices preference tried
MaxClock == 1       \* ticks of the clock

(* Program constants *)
DefaultMaxDevices == 5

----------------------------------------------------------------------------
(* Optional values and strings *)

None == <<>>
Some(v) == <<v>>

\* `x || dflt` for an optional string: undefined and "" are both falsy
OrElse(opt, dflt) == IF opt = None \/ opt[1] = <<>> THEN dflt ELSE opt[1]

\* the separator handed to split
SPACE == 32

\* String.prototype.toLowerCase on one code unit (ASCII range)
LowerUnit(c) == IF c >= 65 /\ c <= 90 THEN c + 32 ELSE c

toLowerCase(s) == [i \in 1..Len(s) |-> LowerUnit(s[i])]

\* "Unknown Device" and "New Device"
UnknownDeviceStr == <<85, 110, 107, 110, 111, 119, 110, 32, 68, 101, 118, 105, 99, 101>>
NewDeviceStr == <<78, 101, 119, 32, 68, 101, 118, 105, 99, 101>>

RECURSIVE Digits(_)
Digits(n) == IF n < 10 THEN <<48 + n>> ELSE Digits(n \div 10) \o <<48 + (n % 10)>>

\* Number.prototype.toString for an integer
NumberToString(n) == IF n < 0 THEN <<45>> \o Digits(0 - n) ELSE Digits(n)

----------------------------------------------------------------------------
(* String comparison *)

\* three-way lexicographic comparison of two sequences of numbers
RECURSIVE SeqCompare(_, _)
SeqCompare(s, t) ==
    IF s = <<>> /\ t = <<>> THEN 0
    ELSE IF s = <<>> THEN -1
    ELSE IF t = <<>> THEN 1
    ELSE IF Head(s) < Head(t) THEN -1
    ELSE IF Head(s) > Head(t) THEN 1
    ELSE SeqCompare(Tail(s), Tail(t))

\* tertiary weight of a code unit: a lower-case letter sorts before its upper-case form
CaseWeight(c) == IF c >= 65 /\ c <= 90 THEN 1 ELSE 0

\* comparison by code unit, as the operators < and > on strings do
CodeUnitCompare(s, t) == SeqCompare(s, t)

\* String.prototype.localeCompare (default collation) on strings of ASCII
\* letters, digits and spaces: the letters are compared without regard to case
\* first, and only strings that are equal that way are ordered by case.
localeCompare(s, t) ==
    LET primary == SeqCompare(toLowerCase(s), toLowerCase(t))
    IN  IF primary # 0 THEN primary
        ELSE SeqCompare([i \in 1..Len(s) |-> CaseWeight(s[i])],
                        [i \in 1..Len(t) |-> CaseWeight(t[i])])

----------------------------------------------------------------------------
(* Device records *)

\* the value of one named entry of a raw record (RawBluetoothDeviceData)
RawData(address, minorType) ==
    [device_address |-> address, device_minorType |-> minorType,
     device_batteryLevelMain |-> None, device_rssi |-> None,
     device_vendorID |-> None, device_productID |-> None,
     device_firmwareVersion |-> None]

\* a raw record is a JSON object: its entries in key order
RawRecord(name, address, minorType) ==
    <<[key |-> name, value |-> RawData(address, minorType)]>>

\* the records the paired-snapshot source reports in this model:
\* "b" (a keyboard), "B", "a" without device_address, and the empty object
RawUniverse ==
    { RawRecord(<<98>>, Some("AA:BB"), Some(<<107>>)),
      RawRecord(<<66>>, Some("CC:DD"), None),
      RawRecord(<<97>>, None, None),
      <<>> }

SeqsUpTo(S, n) == UNION {[1..k -> S] : k \in 0..n}

\* what execSync + JSON.parse of the paired snapshot can give, with at most n
\* records in the two groups together
DocsOver(universe, n) ==
    {[kind |-> "doc", device_connected |-> p[1], device_not_connected |-> p[2]] :
        p \in {q \in SeqsUpTo(universe, n) \X SeqsUpTo(universe, n) :
                    Len(q[1]) + Len(q[2]) <= n}}

SourceDocs(n) == DocsOver(RawUniverse, n)

SourceFailures ==
    {[kind |-> k, device_connected |-> <<>>, device_not_connected |-> <<>>] :
        k \in {"command-failed", "unparsable"}}

\* the source as the reconciler specification sees it
SourceOutputs == SourceDocs(MaxRecords) \cup SourceFailures

\* the well-formed records: a named entry with an address
WellFormedUniverse ==
    {r \in RawUniverse : r # <<>> /\ r[1].value.device_address # None}

\* the source as the lifecycle specification sees it: well-formed records, or a failure
LifecycleOutputs == DocsOver(WellFormedUniverse, MaxLifecycleRecords) \cup SourceFailures

\* the map callback of refreshDevices; lastConnected is new Date() for a
\* connected device and undefined otherwise
NormalizeRecord(device, isConnected) ==
    LET name == device[1].key
        deviceData == device[1].value
    IN  [name |-> name,
         address |-> deviceData.device_address,
         connected |-> isConnected,
         type |-> deviceData.device_minorType,
         batteryLevel |-> deviceData.device_batteryLevelMain,
         rssi |-> deviceData.device_rssi,
         vendorId |-> deviceData.device_vendorID,
         productId |-> deviceData.device_productID,
         firmwareVersion |-> deviceData.device_firmwareVersion,
         lastConnected |-> IF isConnected THEN Some(now) ELSE None]

\* the comparator handed to Array.prototype.sort
CompareDevices(a, b) ==
    IF a.connected # b.connected
    THEN (IF a.connected THEN -1 ELSE 1)
    ELSE localeCompare(a.name, b.name)

\* Array.prototype.sort is stable: an element goes after every element that
\* does not compare greater than it
RECURSIVE InsertDevice(_, _)
InsertDevice(sorted, d) ==
    IF sorted = <<>> THEN <<d>>
    ELSE IF CompareDevices(Head(sorted), d) <= 0
         THEN <<Head(sorted)>> \o InsertDevice(Tail(sorted), d)
         ELSE <<d>> \o sorted

RECURSIVE SortDevices(_)
SortDevices(devices) ==
    IF devices = <<>> THEN <<>>
    ELSE InsertDevice(SortDevices(SubSeq(devices, 1, Len(devices) - 1)),
                      devices[Len(devices)])

\* the try block of refreshDevices throws: the command failed, JSON.parse
\* failed, or a record has no entry (device[undefined].device_address)
RefreshThrows(output) ==
    \/ output.kind # "doc"
    \/ \E i \in 1..Len(output.device_connected) : output.device_connected[i] = <<>>
    \/ \E i \in 1..Len(output.device_not_connected) : output.device_not_connected[i] = <<>>

\* the array handed to setAllDevices when the try block does not throw
RefreshedDevices(output) ==
    SortDevices(
        [i \in 1..Len(output.device_connected) |->
            NormalizeRecord(output.device_connected[i], TRUE)]
        \o
        [i \in 1..Len(output.device_not_connected) |->
            NormalizeRecord(output.device_not_connected[i], FALSE)])

\* refreshDevices empties the known devices when the fetch fails
refreshDevicesClears(known, output) ==
    IF RefreshThrows(output) THEN <<>> ELSE RefreshedDevices(output)

\* refreshDevices keeps the devices it knows once it knows some
refreshDevicesOnce(known, output) ==
    IF RefreshThrows(output) \/ known # <<>> THEN known ELSE RefreshedDevices(output)

\* refreshDevices adds the fetched devices to the ones it knows
refreshDevicesAdding(known, output) ==
    IF RefreshThrows(output) THEN known ELSE SortDevices(known \o RefreshedDevices(output))

\* refreshDevices: the known devices after the call
refreshDevices(known, output) ==
    IF RefreshThrows(output) THEN known ELSE RefreshedDevices(output)

----------------------------------------------------------------------------
(* Discovery scan *)

\* the records the discovery-scan source reports in this model
ScanUniverse ==
    { [address |-> Some("AA:BB"), name |-> Some(<<98>>), rssi |-> Some(0 - 50)],
      [address |-> Some("EE:FF"), name |-> None, rssi |-> None] }

\* what execSync + JSON.parse of `--inquiry 10 --format json` can give
ScanOutputs ==
    {[kind |-> "array", items |-> it] : it \in SeqsUpTo(ScanUniverse, MaxScan)}
    \cup {[kind |-> k, items |-> <<>>] : k \in {"command-failed", "unparsable"}}

\* allDevices.map((d) => d.address)
AddressesOf(devices) == {devices[i].address : i \in 1..Len(devices)}

\* the map callback of startDiscovery
DiscoveredRecord(device) ==
    [name |-> OrElse(device.name, UnknownDeviceStr),
     address |-> device.address,
     connected |-> FALSE,
     type |-> Some(NewDeviceStr),
     batteryLevel |-> None,
     rssi |-> IF device.rssi = None THEN None ELSE Some(NumberToString(device.rssi[1])),
     vendorId |-> None,
     productId |-> None,
     firmwareVersion |-> None,
     lastConnected |-> None]

\* every scanned record becomes a discovered device, known or not
DiscoveredUnfiltered(existingAddresses, items) ==
    [i \in 1..Len(items) |-> DiscoveredRecord(items[i])]

\* JSON.parse(output).filter(not already known).map(...)
Discovered(existingAddresses, items) ==
    LET fresh == SelectSeq(items, LAMBDA device : device.address \notin existingAddresses)
    IN  [i \in 1..Len(fresh) |-> DiscoveredRecord(fresh[i])]

\* the updater of pairDevice keeps every discovered device
DropDiscoveredNone(prev, address) == prev

\* prev.filter((d) => d.address !== address)
DropDiscovered(prev, address) == SelectSeq(prev, LAMBDA d : d.address # address)

----------------------------------------------------------------------------
(* Fuzzy search *)

RECURSIVE FuzzyLoop(_, _, _, _)
FuzzyLoop(text, pattern, i, j) ==
    IF i <= Len(text) /\ j <= Len(pattern)
    THEN FuzzyLoop(text, pattern, i + 1, IF text[i] = pattern[j] THEN j + 1 ELSE j)
    ELSE j

\* fuzzyMatch: the loop consumed the whole pattern
fuzzyMatch(text, pattern) == FuzzyLoop(text, pattern, 1, 1) = Len(pattern) + 1

\* String.prototype.split with a one-unit separator
RECURSIVE SplitFrom(_, _, _)
SplitFrom(s, sep, cur) ==
    IF s = <<>> THEN <<cur>>
    ELSE IF Head(s) = sep THEN <<cur>> \o SplitFrom(Tail(s), sep, <<>>)
    ELSE SplitFrom(Tail(s), sep, Append(cur, Head(s)))

Split(s, sep) == SplitFrom(s, sep, <<>>)

\* some term matches, instead of every term
fuzzySearchSome(device, text) ==
    LET nameLower == toLowerCase(device.name)
        typeLower == toLowerCase(OrElse(device.type, <<>>))
        searchTerms == Split(toLowerCase(text), SPACE)
    IN  \E k \in 1..Len(searchTerms) :
            fuzzyMatch(nameLower, searchTerms[k]) \/ fuzzyMatch(typeLower, searchTerms[k])

fuzzySearch(device, text) ==
    LET searchLower == toLowerCase(text)
        nameLower == toLowerCase(device.name)
        typeLower == toLowerCase(OrElse(device.type, <<>>))
        searchTerms == Split(searchLower, SPACE)
    IN  \A k \in 1..Len(searchTerms) :
            LET matchesName == fuzzyMatch(nameLower, searchTerms[k])
                matchesType == fuzzyMatch(typeLower, searchTerms[k])
            IN  matchesName \/ matchesType

\* Array.prototype.slice(0, end) for end >= 0
SliceFromStart(devices, end) ==
    SubSeq(devices, 1, IF end < Len(devices) THEN end ELSE Len(devices))

\* the filtered list is cut to the maximum as well
FilteredDevicesCut(devices, text, max) ==
    SliceFromStart(
        IF text # <<>> THEN SelectSeq(devices, LAMBDA d : fuzzySearch(d, text)) ELSE devices,
        max)

FilteredDevices(devices, text, max) ==
    IF text # <<>>
    THEN SelectSeq(devices, LAMBDA device : fuzzySearch(device, text))
    ELSE SliceFromStart(devices, max)

\* the constant filteredDevices of one render
filteredDevices == FilteredDevices(allDevices, searchText, maxDevices)

----------------------------------------------------------------------------
(* What a handler did.  No handler returns a value or lets an exception     *)
(* escape (each has its own try/catch), so a handler reports to its caller  *)
(* and to the user only through showToast; console.error writes to the      *)
(* developer log.                                                            *)

Addresses == {"AA:BB", "EE:FF"}

ToolPath == "/opt/homebrew/bin/blueutil"

Command(tool, verb, address) == [tool |-> tool, verb |-> verb, address |-> address]

Did(op) ==
    [op |-> op,
     outcome |-> "ok",          \* "ok", "failed" (the catch block ran), "pending", "declined"
     toast |-> "none",          \* style of the last showToast of the handler
     consoleError |-> FALSE,    \* console.error was called
     commands |-> <<>>,         \* control and scan commands handed to execSync
     refresh |-> "none",        \* refreshDevices ran in the handler: "ok" or "failed"
     scheduled |-> FALSE,       \* setTimeout(refreshDevices, 1000) was called
     existingAddresses |-> {},  \* startDiscovery: the addresses known when it started
     scanned |-> {},            \* startDiscovery: the addresses the scan returned
     args |-> <<>>,             \* the arguments of the handler
     source |-> "none",         \* what refreshDevices got: "doc" (parsed) or "failure"
     dropped |-> 0]             \* pairDevice: discovered devices it removed

RefreshOutcome(output) == IF RefreshThrows(output) THEN "failed" ELSE "ok"

SourceKind(output) == IF output.kind = "doc" THEN "doc" ELSE "failure"

\* the effect of one call of refreshDevices on the known devices
RunRefresh(output) ==
    /\ allDevices' = refreshDevices(allDevices, output)
    /\ lastGood' = IF RefreshThrows(output) THEN lastGood ELSE output

Init ==
    /\ allDevices = <<>>
    /\ searchText = <<>>
    /\ blueutilPath = ""
    /\ isScanning = FALSE
    /\ discoveredDevices = <<>>
    /\ maxDevices = DefaultMaxDevices
    /\ mounted = FALSE
    /\ timers = 0
    /\ outstanding = 0
    /\ queuedScans = 0
    /\ lastGood = [kind |-> "doc", device_connected |-> <<>>, device_not_connected |-> <<>>]
    /\ last = Did("none")
    /\ now = 0
    /\ pending = <<>>
    /\ repeated = FALSE
    /\ overwrote = FALSE

\* the thread is free to run a handler
Idle == mounted /\ outstanding = 0

\* the mount effect fetches the devices although the tool was not found
MountOutcomeFetches(found) ==
    [pathRecorded |-> found, fetch |-> TRUE, consoleError |-> ~found]

\* the mount effect: which statements run, by whether "command -v blueutil"
\* printed a path
MountOutcome(found) ==
    [pathRecorded |-> found,    \* setBlueutilPath(path)
     fetch |-> found,           \* refreshDevices()
     consoleError |-> ~found]   \* the catch block: console.error, return

\* useEffect(..., []): look the tool up, record its path, fetch the devices
Mount(outputs) ==
    /\ ~mounted
    /\ mounted' = TRUE
    /\ \E found \in BOOLEAN :
        LET o == MountOutcome(found)
        IN  /\ blueutilPath' = IF o.pathRecorded THEN ToolPath ELSE blueutilPath
            /\ IF o.fetch
               THEN \E output \in outputs :
                        /\ RunRefresh(output)
                        /\ last' = [Did("mount") EXCEPT
                                        !.outcome = IF found THEN "ok" ELSE "failed",
                                        !.refresh = RefreshOutcome(output),
                                        !.consoleError = o.consoleError \/ RefreshThrows(output),
                                        !.source = SourceKind(output)]
               ELSE /\ last' = [Did("mount") EXCEPT !.outcome = "failed",
                                                    !.consoleError = o.consoleError]
                    /\ UNCHANGED <<allDevices, lastGood>>
    /\ UNCHANGED <<searchText, isScanning, discoveredDevices, maxDevices, timers,
                   outstanding, queuedScans>>

\* the action "Refresh Devices"
RefreshDevices(outputs) ==
    /\ Idle
    /\ \E output \in outputs :
            /\ RunRefresh(output)
            /\ last' = [Did("refreshDevices") EXCEPT
                            !.outcome = RefreshOutcome(output),
                            !.refresh = RefreshOutcome(output),
                            !.consoleError = RefreshThrows(output),
                                !.source = SourceKind(output)]
    /\ UNCHANGED <<searchText, blueutilPath, isScanning, discoveredDevices, maxDevices,
                   mounted, timers, outstanding, queuedScans>>

\* a timer set by toggleConnection fires
TimerFires(outputs) ==
    /\ Idle
    /\ timers > 0
    /\ timers' = timers - 1
    /\ \E output \in outputs :
            /\ RunRefresh(output)
            /\ last' = [Did("timer") EXCEPT
                            !.outcome = RefreshOutcome(output),
                            !.refresh = RefreshOutcome(output),
                            !.consoleError = RefreshThrows(output),
                                !.source = SourceKind(output)]
    /\ UNCHANGED <<searchText, blueutilPath, isScanning, discoveredDevices, maxDevices,
                   mounted, outstanding, queuedScans>>

\* toggleConnection: which statements of the try block run
ToggleOutcome(pathSet, commandOk) ==
    [scheduled |-> pathSet /\ commandOk,    \* setTimeout is reached
     failed |-> ~(pathSet /\ commandOk),    \* the catch block runs
     issued |-> pathSet]                    \* execSync is reached

ToggleConnection ==
    /\ Idle
    /\ \E address \in Addresses, isConnected \in BOOLEAN, commandOk \in BOOLEAN :
        LET o == ToggleOutcome(blueutilPath # "", commandOk)
            action == IF isConnected THEN "--disconnect" ELSE "--connect"
        IN  /\ o.scheduled => timers < MaxTimers
            /\ timers' = IF o.scheduled THEN timers + 1 ELSE timers
            /\ last' = [Did("toggleConnection") EXCEPT
                            !.args = <<address, isConnected>>,
                            !.outcome = IF o.failed THEN "failed" ELSE "ok",
                            !.consoleError = o.failed,
                            !.scheduled = o.scheduled,
                            !.commands = IF o.issued
                                         THEN <<Command(blueutilPath, action, address)>>
                                         ELSE <<>>]
    /\ UNCHANGED <<allDevices, searchText, blueutilPath, isScanning, discoveredDevices,
                   maxDevices, mounted, outstanding, queuedScans, lastGood>>

\* forgetDevice runs the command whatever the answer to confirmAlert
ForgetOutcomeUnasked(confirmed, commandOk) ==
    [issued |-> TRUE, refetch |-> commandOk, failed |-> ~commandOk]

\* forgetDevice: which statements run, by the answer to confirmAlert and the
\* exit of the command
ForgetOutcome(confirmed, commandOk) ==
    [issued |-> confirmed,                  \* execSync is reached
     refetch |-> confirmed /\ commandOk,    \* the success toast and refreshDevices()
     failed |-> confirmed /\ ~commandOk]    \* the catch block: the failure toast

\* forgetDevice, from the answer to confirmAlert on
ForgetDevice(outputs) ==
    /\ Idle
    /\ \E address \in Addresses, confirmed \in BOOLEAN, commandOk \in BOOLEAN :
        LET o == ForgetOutcome(confirmed, commandOk)
            did == [Did("forgetDevice") EXCEPT
                        !.args = <<address>>,
                        !.outcome = IF ~confirmed THEN "declined"
                                    ELSE IF o.failed THEN "failed" ELSE "ok",
                        !.toast = IF o.failed THEN "failure"
                                  ELSE IF o.refetch THEN "success" ELSE "none",
                        !.commands = IF o.issued
                                     THEN <<Command("blueutil", "--unpair", address)>>
                                     ELSE <<>>]
        IN  IF o.refetch
            THEN \E output \in outputs :
                    /\ RunRefresh(output)
                    /\ last' = [did EXCEPT !.refresh = RefreshOutcome(output),
                                           !.consoleError = RefreshThrows(output),
                                           !.source = SourceKind(output)]
            ELSE /\ last' = did
                 /\ UNCHANGED <<allDevices, lastGood>>
    /\ UNCHANGED <<searchText, blueutilPath, isScanning, discoveredDevices, maxDevices,
                   mounted, timers, outstanding, queuedScans>>

\* the catch block also empties the discovered devices
StartDiscoveryCatchClears(discovered) ==
    [isScanning |-> FALSE, discoveredDevices |-> <<>>, toast |-> "failure"]

\* the catch block of startDiscovery: setIsScanning(false), a failure toast,
\* console.error; setDiscoveredDevices is not called
StartDiscoveryCatch(discovered) ==
    [isScanning |-> FALSE, discoveredDevices |-> discovered, toast |-> "failure"]

\* startDiscovery up to the blocking scan command; fromQueue: the request was
\* made while an earlier scan was blocking the thread and is delivered now
StartDiscovery ==
    /\ Idle
    /\ \E fromQueue \in {q \in BOOLEAN : q => queuedScans > 0} :
            queuedScans' = IF fromQueue THEN queuedScans - 1 ELSE queuedScans
    /\ IF blueutilPath = ""
       THEN /\ isScanning' = StartDiscoveryCatch(discoveredDevices).isScanning
            /\ discoveredDevices' = StartDiscoveryCatch(discoveredDevices).discoveredDevices
            /\ last' = [Did("startDiscovery") EXCEPT
                            !.outcome = "failed",
                            !.toast = StartDiscoveryCatch(discoveredDevices).toast,
                            !.consoleError = TRUE]
            /\ UNCHANGED outstanding
       ELSE /\ isScanning' = TRUE
            /\ outstanding' = outstanding + 1
            /\ UNCHANGED discoveredDevices
            /\ last' = [Did("startDiscovery") EXCEPT
                            !.outcome = "pending",
                            !.toast = "animated",
                            !.existingAddresses = AddressesOf(allDevices),
                            !.commands = <<Command(blueutilPath, "--inquiry", "")>>]
    /\ UNCHANGED <<allDevices, searchText, blueutilPath, maxDevices, mounted, timers,
                   lastGood>>

\* the scan command returns and startDiscovery runs to its end
ScanReturns ==
    /\ outstanding > 0
    /\ outstanding' = outstanding - 1
    /\ \E output \in ScanOutputs :
        IF output.kind = "array"
        THEN /\ discoveredDevices' = Discovered(last.existingAddresses, output.items)
             /\ isScanning' = FALSE
             /\ last' = [last EXCEPT !.outcome = "ok", !.toast = "success",
                                     !.scanned = AddressesOf(output.items)]
        ELSE /\ isScanning' = StartDiscoveryCatch(discoveredDevices).isScanning
             /\ discoveredDevices' = StartDiscoveryCatch(discoveredDevices).discoveredDevices
             /\ last' = [last EXCEPT !.outcome = "failed",
                                     !.toast = StartDiscoveryCatch(discoveredDevices).toast,
                                     !.consoleError = TRUE]
    /\ UNCHANGED <<allDevices, searchText, blueutilPath, maxDevices, mounted, timers,
                   queuedScans, lastGood>>

\* the user asks for a scan while the thread is blocked in a scan: the host
\* keeps the request until the handler in progress has returned
RequestScanWhileScanning ==
    /\ outstanding > 0
    /\ queuedScans < MaxQueued
    /\ queuedScans' = queuedScans + 1
    /\ UNCHANGED <<allDevices, searchText, blueutilPath, isScanning, discoveredDevices,
                   maxDevices, mounted, timers, outstanding, lastGood, last>>

\* pairDevice; with no tool path the command line is " --pair <address>" and fails
PairDevice(outputs) ==
    /\ Idle
    /\ \E address \in Addresses, commandOk \in {ok \in BOOLEAN : ok => blueutilPath # ""} :
        \/ /\ commandOk
           /\ discoveredDevices' = DropDiscovered(discoveredDevices, Some(address))
           /\ \E output \in outputs :
                /\ RunRefresh(output)
                /\ last' = [Did("pairDevice") EXCEPT
                                !.args = <<address>>,
                                !.dropped = Len(discoveredDevices) - Len(discoveredDevices'),
                                !.toast = "success",
                                !.refresh = RefreshOutcome(output),
                                !.consoleError = RefreshThrows(output),
                                !.source = SourceKind(output),
                                !.commands = <<Command(blueutilPath, "--pair", address)>>]
        \/ /\ ~commandOk
           /\ last' = [Did("pairDevice") EXCEPT
                            !.args = <<address>>,
                            !.outcome = "failed",
                            !.toast = "failure",
                            !.commands = <<Command(blueutilPath, "--pair", address)>>]
           /\ UNCHANGED <<allDevices, lastGood, discoveredDevices>>
    /\ UNCHANGED <<searchText, blueutilPath, isScanning, maxDevices, mounted, timers,
                   outstanding, queuedScans>>

\* the clock stands still and the histories of the other specifications are
\* not kept
Untimed == UNCHANGED <<now, pending, repeated, overwrote>>

Next ==
    \/ Mount(LifecycleOutputs) /\ Untimed
    \/ RefreshDevices(LifecycleOutputs) /\ Untimed
    \/ TimerFires(LifecycleOutputs) /\ Untimed
    \/ ToggleConnection /\ Untimed
    \/ ForgetDevice(LifecycleOutputs) /\ Untimed
    \/ StartDiscovery /\ Untimed
    \/ ScanReturns /\ Untimed
    \/ RequestScanWhileScanning /\ Untimed
    \/ PairDevice(LifecycleOutputs) /\ Untimed

\* every handler of the command
Spec == Init /\ [][Next]_vars

NextReconciler ==
    \/ Mount(SourceOutputs) /\ Untimed
    \/ RefreshDevices(SourceOutputs) /\ Untimed
    \/ ToggleConnection /\ Untimed
    \/ TimerFires(SourceOutputs) /\ Untimed

\* the handlers that fetch the known devices, with larger source documents
SpecReconciler == Init /\ [][NextReconciler]_vars

\* the source of the clock specification: the well-formed records and a
\* second device named "b"
TwinUniverse == WellFormedUniverse \cup {RawRecord(<<98>>, Some("EE:FF"), None)}

ClockOutputs == DocsOver(TwinUniverse, MaxRecords) \cup SourceFailures

\* time passes between two handlers
Tick ==
    /\ now < MaxClock
    /\ now' = now + 1
    /\ UNCHANGED <<allDevices, searchText, blueutilPath, isScanning, discoveredDevices,
                   maxDevices, mounted, timers, outstanding, queuedScans, lastGood, last,
                   pending, repeated, overwrote>>

\* the handler that just ran and the one before it both fetched the devices,
\* and both read the same document
Repeats ==
    repeated' = (last'.refresh = "ok" /\ last.refresh = "ok" /\ lastGood' = lastGood)

NextClock ==
    \/ Mount(ClockOutputs) /\ Repeats /\ UNCHANGED <<now, pending, overwrote>>
    \/ RefreshDevices(ClockOutputs) /\ Repeats /\ UNCHANGED <<now, pending, overwrote>>
    \/ Tick

\* the fetches of the known devices, with time passing between them
SpecClock == Init /\ [][NextClock]_vars

\* which refreshes ran between the setting of a timer and its firing
Orders ==
    /\ pending' = IF timers' > timers THEN Append(pending, FALSE)
                  ELSE IF timers' < timers THEN Tail(pending)
                  ELSE IF last'.refresh = "ok" THEN [i \in 1..Len(pending) |-> TRUE]
                  ELSE pending
    /\ overwrote' = IF last'.refresh = "ok"
                    THEN timers' < timers /\ Head(pending)
                    ELSE overwrote
    /\ UNCHANGED <<now, repeated>>

NextOrdering ==
    \/ Mount(LifecycleOutputs) /\ Orders
    \/ RefreshDevices(LifecycleOutputs) /\ Orders
    \/ ToggleConnection /\ Orders
    \/ TimerFires(LifecycleOutputs) /\ Orders
    \/ PairDevice(LifecycleOutputs) /\ Orders
    \/ ForgetDevice(LifecycleOutputs) /\ Orders

\* the handlers that fetch the known devices or set a timer to fetch them,
\* with the history of what ran while a timer was pending
SpecOrdering == Init /\ [][NextOrdering]_vars

----------------------------------------------------------------------------
(* The search bar *)

\* the known devices of the search specification: "aB", "B" (type "a"), "a"
SearchUniverse ==
    { RawRecord(<<97, 66>>, Some("AA:BB"), None),
      RawRecord(<<66>>, Some("CC:DD"), Some(<<97>>)),
      RawRecord(<<97>>, Some("EE:FF"), None) }

\* the code units typed into the search bar: a, B, space, tab
QueryUnits == {97, 66, SPACE, 9}

\* the command after its mount effect fetched one of the documents
InitSearch ==
    /\ now = 0
    /\ \E output \in DocsOver(SearchUniverse, MaxSearchRecords) :
            /\ allDevices = RefreshedDevices(output)
            /\ lastGood = output
    /\ maxDevices \in 1..MaxPref
    /\ searchText = <<>>
    /\ blueutilPath = ToolPath
    /\ isScanning = FALSE
    /\ discoveredDevices = <<>>
    /\ mounted = TRUE
    /\ timers = 0
    /\ outstanding = 0
    /\ queuedScans = 0
    /\ last = [Did("mount") EXCEPT !.refresh = "ok", !.source = "doc"]
    /\ pending = <<>>
    /\ repeated = FALSE
    /\ overwrote = FALSE

\* onSearchTextChange={setSearchText}: a unit is typed or the last one deleted
OnSearchTextChange ==
    /\ \/ \E c \in QueryUnits :
            /\ Len(searchText) < MaxQuery
            /\ searchText' = Append(searchText, c)
       \/ /\ searchText # <<>>
          /\ searchText' = SubSeq(searchText, 1, Len(searchText) - 1)
    /\ UNCHANGED <<allDevices, blueutilPath, isScanning, discoveredDevices, maxDevices,
                   mounted, timers, outstanding, queuedScans, lastGood, last>>

NextSearch == OnSearchTextChange /\ Untimed

\* the search bar over a fetched list
SpecSearch == InitSearch /\ [][NextSearch]_vars

----------------------------------------------------------------------------
(* Notions the claims are stated in *)

\* p occurs in t as a subsequence: its units in order, not necessarily adjacent
IsSubsequence(p, t) ==
    \E f \in [1..Len(p) -> 1..Len(t)] :
        /\ \A i, j \in 1..Len(p) : i < j => f[i] < f[j]
        /\ \A i \in 1..Len(p) : t[f[i]] = p[i]

\* the terms of q: its maximal runs of units that are not separators
TermsOf(q, separators) ==
    {SubSeq(q, i, j) : <<i, j>> \in
        {r \in (1..Len(q)) \X (1..Len(q)) :
            /\ r[1] <= r[2]
            /\ \A k \in r[1]..r[2] : q[k] \notin separators
            /\ r[1] = 1 \/ q[r[1] - 1] \in separators
            /\ r[2] = Len(q) \/ q[r[2] + 1] \in separators}}

\* every term of the query is a subsequence of the name or of the type,
\* letters compared without regard to case
MatchesAllTerms(d, q, separators) ==
    \A term \in TermsOf(toLowerCase(q), separators) :
        \/ IsSubsequence(term, toLowerCase(d.name))
        \/ IsSubsequence(term, toLowerCase(IF d.type = None THEN <<>> ELSE d.type[1]))

\* s is not after t in the lexicographic order of their units
LexLeq(s, t) ==
    \/ /\ Len(s) <= Len(t)
       /\ \A k \in 1..Len(s) : s[k] = t[k]
    \/ \E k \in 1..Len(s) :
        /\ k <= Len(t)
        /\ \A m \in 1..(k - 1) : s[m] = t[m]
        /\ s[k] < t[k]

\* the number of entries of a list that equal r
CountOf(list, r) == Cardinality({i \in 1..Len(list) : list[i] = r})

\* the records the code builds from a source document, in document order
NormalizedRecords(doc) ==
    [i \in 1..Len(doc.device_connected) |-> NormalizeRecord(doc.device_connected[i], TRUE)]
    \o
    [i \in 1..Len(doc.device_not_connected) |->
        NormalizeRecord(doc.device_not_connected[i], FALSE)]

\* the addresses the connected group of a document names
ConnectedAddresses(doc) ==
    {doc.device_connected[i][1].value.device_address : i \in 1..Len(doc.device_connected)}

\* the white space a query can hold here: space and tab
Whitespace == {SPACE, 9}

\* the handler told its caller that it failed
Surfaced(l) == l.toast = "failure"

----------------------------------------------------------------------------
(* Claims *)

\* C1: after every successful refresh, whatever the connected and the
\* not-connected arrays hold, no two known devices have the same address.
\* Fails: the two arrays are concatenated and nothing removes a repetition.
C1_UniqueAddresses ==
    \A i, j \in 1..Len(allDevices) :
        (allDevices[i].address # None /\ allDevices[i].address = allDevices[j].address)
            => i = j

\* C2: in every reachable state every connected known device precedes every
\* disconnected one, and within each group the names ascend in the
\* lexicographic order that disregards case.
C2_SortOrder ==
    \A i, j \in 1..Len(allDevices) :
        i < j =>
            /\ allDevices[j].connected => allDevices[i].connected
            /\ allDevices[i].connected = allDevices[j].connected
                => LexLeq(toLowerCase(allDevices[i].name), toLowerCase(allDevices[j].name))

\* C2 witness: two devices of one group whose order by code unit is the reverse
\* of their order without regard to case ("a" before "B")
C2_Witness ==
    \E i, j \in 1..Len(allDevices) :
        /\ i < j
        /\ allDevices[i].connected = allDevices[j].connected
        /\ toLowerCase(allDevices[i].name) # toLowerCase(allDevices[j].name)
        /\ ~LexLeq(allDevices[i].name, allDevices[j].name)

\* C3: a refresh that fails leaves the known devices exactly as they were and
\* surfaces an error to its caller.
\* Fails in its second half: the catch block only writes to the console.
C3_FailedRefresh ==
    [][(last'.op = "refreshDevices" /\ last'.refresh = "failed")
            => (allDevices' = allDevices /\ Surfaced(last'))]_vars

\* C3, the half that holds: a failed refresh leaves the known devices as they were
C3_KnownRetained ==
    [][(last'.op = "refreshDevices" /\ last'.refresh = "failed")
            => allDevices' = allDevices]_vars

\* C4: the known devices are exactly the normalized records of the latest
\* successful refresh, a device is connected if and only if its address was in
\* the connected group of that refresh, and lastConnected is present exactly
\* when connected is true.
\* Fails: an address reported in both groups is also kept as a disconnected device.
C4_LatestRefreshOnly ==
    /\ Len(allDevices) = Len(NormalizedRecords(lastGood))
    /\ \A i \in 1..Len(allDevices) :
        /\ CountOf(allDevices, allDevices[i]) = CountOf(NormalizedRecords(lastGood), allDevices[i])
        /\ allDevices[i].address # None
            => (allDevices[i].connected <=> allDevices[i].address \in ConnectedAddresses(lastGood))
        /\ allDevices[i].lastConnected # None <=> allDevices[i].connected

\* C5: after a successful scan no discovered device has an address that was
\* known when the scan started.
C5_DiscoveredNotKnown ==
    (last.op = "startDiscovery" /\ last.outcome = "ok")
        => \A i \in 1..Len(discoveredDevices) :
                discoveredDevices[i].address \notin last.existingAddresses

\* C5 witness: a scan succeeded that reported an address known at its start
C5_Witness ==
    /\ last.op = "startDiscovery"
    /\ last.outcome = "ok"
    /\ last.scanned \cap last.existingAddresses # {}
    /\ discoveredDevices # <<>>

\* C6: a scan requested while a scan is in flight is rejected with
\* ConcurrentScanRejected and issues no scan command, and never are two scan
\* commands outstanding.
\* Fails: the request is kept and runs a second scan once the first has returned.
C6_ConcurrentScanRejected ==
    /\ [](outstanding <= 1)
    /\ [][queuedScans' < queuedScans
            => (outstanding' = outstanding /\ last'.outcome = "ConcurrentScanRejected")]_vars

\* C6, the half that holds: never are two scan commands outstanding
C6_OneScanAtATime == outstanding <= 1

\* C7: a scan that fails (no tool path, the command fails, the output does not
\* parse) ends with the scanning flag false, the discovered devices as they
\* were before the call, and a failure surfaced.
C7_FailedScan ==
    /\ [][(last'.op = "startDiscovery" /\ last'.outcome \in {"pending", "failed"})
            => discoveredDevices' = discoveredDevices]_vars
    /\ [][(last'.op = "startDiscovery" /\ last'.outcome = "failed")
            => (isScanning' = FALSE /\ Surfaced(last'))]_vars

\* C7 witness: a scan failed after an earlier scan had discovered a device
C7_Witness ==
    /\ last.op = "startDiscovery"
    /\ last.outcome = "failed"
    /\ discoveredDevices # <<>>
    /\ ~isScanning

MatchingPositions == {i \in 1..Len(allDevices) : fuzzySearch(allDevices[i], searchText)}

\* C9: with an empty query the displayed list is the first min(maxDevices,
\* |known|) known devices; with a non-empty query it is every matching known
\* device in known order, however many there are.
C9_Displayed ==
    IF searchText = <<>>
    THEN /\ Len(filteredDevices) =
                (IF maxDevices < Len(allDevices) THEN maxDevices ELSE Len(allDevices))
         /\ \A k \in 1..Len(filteredDevices) : filteredDevices[k] = allDevices[k]
    ELSE /\ Len(filteredDevices) = Cardinality(MatchingPositions)
         /\ \A k \in 1..Len(filteredDevices) :
                \E i \in MatchingPositions :
                    /\ Cardinality({m \in MatchingPositions : m <= i}) = k
                    /\ filteredDevices[k] = allDevices[i]

\* C9 witness: a non-empty query that more than maxDevices devices match, but not all
C9_Witness ==
    /\ searchText # <<>>
    /\ Len(filteredDevices) > maxDevices
    /\ Len(filteredDevices) < Len(allDevices)

\* C10: every toggleConnection request schedules a re-fetch, whether the
\* control command succeeded or failed.
\* Fails: a command that fails throws past setTimeout.
C10_AlwaysSchedules ==
    (last.op = "toggleConnection" /\ last.commands # <<>>) => last.scheduled

\* C11: in every step of pairDevice: when the pair command succeeds, a re-fetch
\* of the known devices runs in the same step and the discovered devices are
\* the former ones without the paired address, in their order; when the
\* command fails, no re-fetch runs and the discovered and the known devices
\* are unchanged.
C11_PairOutcome ==
    [][last'.op = "pairDevice" =>
        IF last'.outcome = "ok"
        THEN /\ last'.refresh # "none"
             /\ Some(last'.args[1]) \notin AddressesOf(discoveredDevices')
             /\ Len(discoveredDevices') =
                    Cardinality({i \in 1..Len(discoveredDevices) :
                                    discoveredDevices[i].address # Some(last'.args[1])})
             /\ IsSubsequence(discoveredDevices', discoveredDevices)
        ELSE /\ last'.refresh = "none"
             /\ discoveredDevices' = discoveredDevices
             /\ allDevices' = allDevices]_vars

\* a pairing succeeded, removed a discovered device and fetched the known ones
C11_Witness ==
    /\ last.op = "pairDevice"
    /\ last.outcome = "ok"
    /\ last.dropped > 0
    /\ last.refresh = "ok"

\* C12: in every step of forgetDevice: when the user declines the confirmation,
\* no command is issued, no re-fetch runs and nothing of the command's state
\* changes; when the user confirms, the unpair command for that address is
\* issued, and then a re-fetch runs if the command succeeded, while the known
\* devices are unchanged (and no re-fetch runs) if it failed.
C12_ForgetOutcome ==
    [][last'.op = "forgetDevice" =>
        IF last'.outcome = "declined"
        THEN /\ last'.commands = <<>>
             /\ last'.refresh = "none"
             /\ UNCHANGED <<allDevices, discoveredDevices, blueutilPath, isScanning,
                            searchText, timers>>
        ELSE /\ Len(last'.commands) = 1
             /\ last'.commands[1].verb = "--unpair"
             /\ last'.commands[1].address = last'.args[1]
             /\ IF last'.outcome = "ok"
                THEN last'.refresh # "none"
                ELSE /\ last'.refresh = "none"
                     /\ allDevices' = allDevices]_vars

\* the user declined to forget a device while devices were known
C12_Witness ==
    /\ last.op = "forgetDevice"
    /\ last.outcome = "declined"
    /\ allDevices # <<>>

WithoutTimes(devices) ==
    [i \in 1..Len(devices) |->
        [devices[i] EXCEPT !.lastConnected = IF @ = None THEN None ELSE Some(0)]]

\* C14 as stated: a refresh that reads the document the refresh before it
\* read leaves the list of known devices as it was, order included.
\* Fails: lastConnected of a connected device is the time of the refresh.
C14_Idempotent ==
    [][repeated' => allDevices' = allDevices]_vars

\* C14, amended: a refresh that reads the document the refresh before it read
\* leaves the list of known devices as it was, order included, except for
\* the times in lastConnected: each connected device carries the time of the
\* refresh that built the list (now' = now: the step is a handler's, not the
\* clock's).
C14_IdempotentButTimes ==
    [][(repeated' /\ now' = now) =>
        /\ WithoutTimes(allDevices') = WithoutTimes(allDevices)
        /\ \A i \in 1..Len(allDevices') :
                allDevices'[i].connected => allDevices'[i].lastConnected = Some(now')]_vars

\* a refresh repeated the one before it on a document with two devices of
\* equal name and equal connected flag
C14_Witness ==
    /\ repeated
    /\ \E i, j \in 1..Len(allDevices) :
            /\ i < j
            /\ allDevices[i].name = allDevices[j].name
            /\ allDevices[i].connected = allDevices[j].connected
            /\ allDevices[i].address # allDevices[j].address

\* the addresses of the records of a document that have a named entry with
\* an address
WellFormedAddresses(doc) ==
    LET records == doc.device_connected \o doc.device_not_connected
    IN  {records[i][1].value.device_address :
            i \in {k \in 1..Len(records) :
                    records[k] # <<>> /\ records[k][1].value.device_address # None}}

\* C15: a refresh whose source gave a parsed document is not aborted by a
\* record without an address or without a named entry: it installs the
\* devices of the other records; and no known device is without an address.
\* Fails: a record without a named entry makes the map callback throw, which
\* aborts the refresh; a record without an address is installed as it is.
C15_MalformedDropped ==
    /\ \A i \in 1..Len(allDevices) : allDevices[i].address # None
    /\ last.source = "doc" =>
            /\ last.refresh = "ok"
            /\ AddressesOf(allDevices) = WellFormedAddresses(lastGood)

ToggledKnownDevice ==
    /\ last'.op = "toggleConnection"
    /\ blueutilPath # ""
    /\ \E i \in 1..Len(allDevices) :
            /\ allDevices[i].address = Some(last'.args[1])
            /\ allDevices[i].connected = last'.args[2]

\* C17: when toggleConnection is called for a known device, with the tool
\* path set, the command is issued with the connect verb if the device is
\* disconnected and the disconnect verb if it is connected, and with the
\* device's address, and a re-fetch is set to run.
\* Fails: when the command fails no timer is set, so no re-fetch ever runs.
C17_ToggleThenRefetch ==
    [][ToggledKnownDevice =>
        /\ last'.commands =
                <<Command(blueutilPath,
                          IF last'.args[2] THEN "--disconnect" ELSE "--connect",
                          last'.args[1])>>
        /\ timers' = timers + 1]_vars

\* C17, the part that holds: the verb and the address of the command are as
\* the claim says, and a timer's refresh that succeeds shows every device of
\* the connected group of the document it read as connected.
C17_VerbAndOutcome ==
    [][/\ ToggledKnownDevice =>
            last'.commands =
                <<Command(blueutilPath,
                          IF last'.args[2] THEN "--disconnect" ELSE "--connect",
                          last'.args[1])>>
       /\ (timers' < timers /\ last'.refresh = "ok") =>
            \A a \in ConnectedAddresses(lastGood') :
                \E i \in 1..Len(allDevices') :
                    allDevices'[i].address = a /\ allDevices'[i].connected]_vars

\* C18: the known devices change only in a step in which refreshDevices ran
\* and succeeded, and an address that enters them is one of the document that
\* refresh read; the steps of startDiscovery and of toggleConnection never
\* change them, and pairDevice and forgetDevice change them only through
\* their re-fetch; so a change of the discovered devices (a scan result, the
\* removal of a paired device) changes the known devices only if a re-fetch
\* ran in the same step.
C18_OwnershipFrame ==
    [][/\ allDevices' # allDevices =>
            /\ last'.refresh = "ok"
            /\ last'.op \in {"mount", "refreshDevices", "timer", "pairDevice", "forgetDevice"}
            /\ AddressesOf(allDevices') \subseteq
                    AddressesOf(NormalizedRecords(lastGood'))
       /\ last'.op \in {"startDiscovery", "toggleConnection"} => allDevices' = allDevices
       /\ (last'.op \in {"pairDevice", "forgetDevice"} /\ last'.refresh # "ok")
            => allDevices' = allDevices
       /\ (discoveredDevices' # discoveredDevices /\ last'.refresh # "ok")
            => allDevices' = allDevices]_vars

\* a discovered device was paired and the re-fetch of pairDevice brought its
\* address into the known devices
C18_Witness ==
    /\ last.op = "pairDevice"
    /\ last.dropped > 0
    /\ last.refresh = "ok"
    /\ Some(last.args[1]) \in AddressesOf(allDevices)

\* the action entry points
EntryPoints ==
    {"refreshDevices", "startDiscovery", "toggleConnection", "pairDevice", "forgetDevice"}

\* C19: whenever an entry point fails (its external command fails, its output
\* cannot be used, or it has no tool path), it tells its caller so (a failure
\* toast) and leaves the known and the discovered devices as they were.
\* Fails: refreshDevices and toggleConnection only write to the console.
C19_FailureSurfaced ==
    [][(last'.op \in EntryPoints /\ last'.outcome = "failed") =>
        /\ Surfaced(last')
        /\ allDevices' = allDevices
        /\ discoveredDevices' = discoveredDevices]_vars

\* C19, the part that holds: a failed entry point leaves the known and the
\* discovered devices as they were.
C19_FailureKeepsSets ==
    [][(last'.op \in EntryPoints /\ last'.outcome = "failed") =>
        /\ allDevices' = allDevices
        /\ discoveredDevices' = discoveredDevices]_vars

C20_GuardedEntryPoints ==
    [][(blueutilPath = "" /\ mounted /\
        last'.op \in {"toggleConnection", "startDiscovery"}) =>
        /\ last'.commands = <<>>
        /\ ~last'.scheduled
        /\ timers' = timers
        /\ last'.refresh = "none"
        /\ allDevices' = allDevices
        /\ discoveredDevices' = discoveredDevices]_vars

====
